---- MODULE Spec2Model ----
(***************************************************************************)
(* Booking workflow of the Trello car-rental app.                          *)
(*                                                                         *)
(* The external Trello board is the program's only store: a booking is a   *)
(* card, its status is the list (container) that holds the card, and its   *)
(* fields are a JSON object in the card's description.  The model holds    *)
(* the board, the process environment that app/config.py reads, the        *)
(* outcome of the last request, what the last read returned, and the       *)
(* requests of concurrent callers that are in flight.  Route handlers are  *)
(* modelled as run by an authenticated admin session.                      *)
(*                                                                         *)
(* Strings that the code inspects character by character (list ids and     *)
(* list names) are sequences of tokens: a 24-hex-digit Trello id is a      *)
(* one-token sequence whose token is in HexTokens, a name is a sequence of *)
(* letter tokens.  Field values of a payload are plain strings.  The text  *)
(* of a card description is a sequence of tokens too: JSON punctuation,    *)
(* quoted string literals, " " for white space, and words of free text     *)
(* that are no JSON.                                                       *)
(***************************************************************************)
EXTENDS Integers, Sequences, FiniteSets, TLC

VARIABLES env, cards, result, reply, calls, lookup, edits, files, answer, v3, web,
          finance, boot

vars == <<env, cards, result, reply, calls, lookup, edits, files, answer, v3, web,
          finance, boot>>

\* The state outside the booking workflow.
others == <<lookup, edits, files, answer, v3, web, finance, boot>>

\* The state outside the booking workflow, one variable left out.
but_lookup == <<edits, files, answer, v3, web, finance, boot>>
but_edits == <<lookup, files, answer, v3, web, finance, boot>>
but_contracts == <<lookup, edits, v3, web, finance, boot>>
but_v3 == <<lookup, edits, files, answer, web, finance, boot>>
but_web == <<lookup, edits, files, answer, v3, finance, boot>>
but_finance == <<lookup, edits, files, answer, v3, web, boot>>
but_boot == <<lookup, edits, files, answer, v3, web, finance>>

\* The booking workflow: configuration, board, and the last request and its answer.
workflow == <<env, cards, result, reply, calls>>

(* ---------------------------------------------------------------- bounds *)

\* Largest number of cards the board holds.
MaxCards == 1

\* Largest number of lists on a board handed to the name lookup.
MaxLists == 3

\* Largest number of cards in the paid-invoices list.
MaxInvoices == 2

\* Largest number of lists, and of labels, on the board the bootstrap script fills.
MaxItems == 3

(* --------------------------------------------------------------- strings *)

\* Tokens standing for a run of 24 hexadecimal digits.
HexTokens == {"h_dem", "h_res", "h_ong", "h_done", "h_can", "h_veh", "h_none"}

EmptyStr == << >>

\* str.casefold() on one token.
CasefoldTok(ch) ==
    CASE ch = "D" -> "d" [] ch = "O" -> "o" [] ch = "N" -> "n" [] ch = "E" -> "e"
      [] ch = "M" -> "m" [] ch = "R" -> "r" [] ch = "S" -> "s" [] ch = "G" -> "g"
      [] ch = "C" -> "c" [] ch = "A" -> "a" [] ch = "V" -> "v" [] ch = "H" -> "h"
      [] OTHER -> ch

Casefold(s) == [i \in 1..Len(s) |-> CasefoldTok(s[i])]

RECURSIVE LStrip(_)
LStrip(s) == IF s # << >> /\ Head(s) = " " THEN LStrip(Tail(s)) ELSE s

RECURSIVE RStrip(_)
RStrip(s) ==
    IF s # << >> /\ s[Len(s)] = " " THEN RStrip(SubSeq(s, 1, Len(s) - 1)) ELSE s

\* str.strip()
Strip(s) == RStrip(LStrip(s))

\* re.sub(r"\s+", " ", s): every run of blanks becomes one blank.
RECURSIVE CollapseSpaces(_)
CollapseSpaces(s) ==
    IF Len(s) <= 1 THEN s
    ELSE IF s[1] = " " /\ s[2] = " " THEN CollapseSpaces(Tail(s))
    ELSE <<s[1]>> \o CollapseSpaces(Tail(s))

\* norm() inside get_list_id_by_name
Norm(s) == Casefold(CollapseSpaces(Strip(s)))

\* strip() of a form value (a plain string; " " stands for any blank text)
StripValue(v) == IF v = " " THEN "" ELSE v

(* --------------------------------------------------------- configuration *)

EnvVars == {"LIST_DEMANDES", "LIST_RESERVED", "LIST_ONGOING", "LIST_DONE",
            "LIST_CANCELED", "LIST_CLOSED", "LIST_CANCEL"}

Unset == [set |-> FALSE, val |-> EmptyStr]

SetTo(s) == [set |-> TRUE, val |-> s]

\* _env(name, default): os.getenv(name, default).strip()
Env(name, default) ==
    IF env[name].set THEN Strip(env[name].val) ELSE Strip(default)

LIST_DEMANDES == Env("LIST_DEMANDES", <<"h_dem">>)
LIST_RESERVED == Env("LIST_RESERVED", <<"h_res">>)
LIST_ONGOING == Env("LIST_ONGOING", <<"h_ong">>)
LIST_DONE == Env("LIST_DONE", <<"h_done">>)
LIST_CANCELED == Env("LIST_CANCELED", <<"h_can">>)
LIST_CLOSED == Env("LIST_CLOSED", LIST_DONE)
LIST_CANCEL == Env("LIST_CANCEL", LIST_CANCELED)
LIST_VEHICLES == <<"h_veh">>

Statuses == {"REQUESTED", "RESERVED", "ONGOING", "DONE", "CANCELED"}

\* The list variable configured for a status.
ListOf(s) ==
    CASE s = "REQUESTED" -> LIST_DEMANDES
      [] s = "RESERVED" -> LIST_RESERVED
      [] s = "ONGOING" -> LIST_ONGOING
      [] s = "DONE" -> LIST_DONE
      [] s = "CANCELED" -> LIST_CANCELED

(* ------------------------------------------------------ the Trello board *)

\* The lists of the board, in board order.
BoardLists ==
    << [id |-> <<"h_dem">>,  name |-> <<"D", "E", "M">>],
       [id |-> <<"h_res">>,  name |-> <<"R", "E", "S">>],
       [id |-> <<"h_ong">>,  name |-> <<"O", "N", "G">>],
       [id |-> <<"h_done">>, name |-> <<"D", "O", "N", "E">>],
       [id |-> <<"h_can">>,  name |-> <<"C", "A", "N">>],
       [id |-> <<"h_veh">>,  name |-> <<"V", "E", "H">>] >>

BoardListIds == {BoardLists[i].id : i \in DOMAIN BoardLists}

\* Outcome of a call that returns a value or raises.
Ok(v) == [err |-> "ok", val |-> v]
Raise(e) == [err |-> e, val |-> EmptyStr]

\* re.fullmatch(r"[a-f0-9]{24}", x.strip(), IGNORECASE)
looks_like_list_id(x) ==
    LET s == Strip(x) IN Len(s) = 1 /\ s[1] \in HexTokens

\* Index of the first list of the board whose key (its name as one tier of the lookup
\* sees it) is w; 0 if none.
FirstList(keys, w) ==
    LET hits == {i \in DOMAIN keys : keys[i] = w}
    IN IF hits = {} THEN 0 ELSE CHOOSE i \in hits : \A j \in hits : i <= j

\* The name lookup with the case-insensitive comparison tried before the exact one.
get_list_id_folded_first(lists, list_name) ==
    LET wanted == Strip(list_name)
        exact == FirstList([i \in DOMAIN lists |-> Strip(lists[i].name)], wanted)
        folded == FirstList([i \in DOMAIN lists |-> Casefold(Strip(lists[i].name))],
                            Casefold(wanted))
        relaxed == FirstList([i \in DOMAIN lists |-> Norm(lists[i].name)], Norm(wanted))
    IN IF wanted = EmptyStr THEN Raise("RuntimeError")
       ELSE IF folded # 0 THEN Ok(lists[folded].id)
       ELSE IF exact # 0 THEN Ok(lists[exact].id)
       ELSE IF relaxed # 0 THEN Ok(lists[relaxed].id)
       ELSE Raise("RuntimeError")

\* The body of get_list_id_by_name on the lists GET /boards/{id}/lists answers with.
get_list_id_in(lists, list_name) ==
    LET wanted == Strip(list_name)
        exact == FirstList([i \in DOMAIN lists |-> Strip(lists[i].name)], wanted)
        folded == FirstList([i \in DOMAIN lists |-> Casefold(Strip(lists[i].name))],
                            Casefold(wanted))
        relaxed == FirstList([i \in DOMAIN lists |-> Norm(lists[i].name)], Norm(wanted))
    IN IF wanted = EmptyStr THEN Raise("RuntimeError")
       ELSE IF exact # 0 THEN Ok(lists[exact].id)
       ELSE IF folded # 0 THEN Ok(lists[folded].id)
       ELSE IF relaxed # 0 THEN Ok(lists[relaxed].id)
       ELSE Raise("RuntimeError")

\* get_list_id_by_name(board_id, list_name)
get_list_id_by_name(list_name) == get_list_id_in(BoardLists, list_name)

\* target if _looks_like_list_id(target) else self.get_list_id(target)
ResolveList(list_id_or_name) ==
    LET target == Strip(list_id_or_name)
    IN IF looks_like_list_id(target) THEN Ok(target)
       ELSE get_list_id_by_name(target)

(* -------------------------------------------------------------- payloads *)

Absent == "<absent>"

\* A payload (the dict the handlers build and read): one field per key, Absent for a
\* key the dict does not have; audit is the list under "_audit", << >> without the key.
EmptyPayload == [client |-> Absent, vehicle |-> Absent, plate |-> Absent,
                 entity |-> Absent, type |-> Absent, audit |-> << >>]

\* The fields in the order the dict holds its keys.
Fields == <<"client", "vehicle", "plate", "entity", "type", "audit">>

\* The keys of an audit record, in the order audit_add writes them.
AuditFields == <<"ts", "role", "name", "action", "meta">>

\* The JSON key of a payload field.
JsonKey(f) ==
    CASE f = "type" -> "_type"
      [] f = "audit" -> "_audit"
      [] f = "entity" -> "type"
      [] OTHER -> f

\* The strings that occur as keys and values of the payloads considered. A dict value
\* of an audit record ({"plate": ...}, {}) is written as one string.
Literals ==
    {"client", "vehicle", "plate", "type", "_type", "_audit",
     "ts", "role", "name", "action", "meta",
     "", "Amel", "Clio", "AB1", "booking", "vehicle", "vehicle_create", "admin",
     "{plate}", "{}", "now",
     "meta", "booking_id", "generated_at", "header", "company_name", "title",
     "ab", "a-b", "c", "Resa", "Zohir Location Auto", "Acme"}

\* A JSON string literal is one token of a text: the string between double quotes.
Quote(s) == "\"" \o s \o "\""

StringTokens == {Quote(s) : s \in Literals}

Unquote == [q \in StringTokens |-> CHOOSE s \in Literals : Quote(s) = q]

RECURSIVE Flatten(_)
Flatten(ss) == IF ss = << >> THEN << >> ELSE Head(ss) \o Flatten(Tail(ss))

\* json.dumps with indent=2: the members on lines of their own, joined by ",", between
\* the opening and the closing token; nothing between the two when there is no member.
Block(open, members, close) ==
    IF members = << >> THEN <<open, close>>
    ELSE <<open, " ">>
         \o Flatten([i \in DOMAIN members |->
                       members[i] \o (IF i < Len(members) THEN <<",", " ">> ELSE <<" ">>)])
         \o <<close>>

Member(key, value) == <<Quote(key), ":", " ">> \o value

\* json.dumps of an audit record
json_record(r) ==
    Block("{", [i \in DOMAIN AuditFields |->
                  Member(AuditFields[i], <<Quote(r[AuditFields[i]])>>)], "}")

\* json.dumps of the audit list
json_array(a) == Block("[", [i \in DOMAIN a |-> json_record(a[i])], "]")

\* A dump that leaves out the keys whose value is the empty string.
Present_truthy(p) ==
    SelectSeq(Fields, LAMBDA f : IF f = "audit" THEN p.audit # << >>
                                 ELSE p[f] # Absent /\ p[f] # "")

\* The fields whose key the dict has.
Present(p) ==
    SelectSeq(Fields, LAMBDA f : IF f = "audit" THEN p.audit # << >> ELSE p[f] # Absent)

\* json.dumps(payload, ensure_ascii=False, indent=2)
json_dumps(p) ==
    LET fs == Present(p)
    IN Block("{", [i \in DOMAIN fs |->
                     Member(JsonKey(fs[i]),
                            IF fs[i] = "audit" THEN json_array(p.audit)
                            ELSE <<Quote(p[fs[i]])>>)],
             "}")

RECURSIVE SkipWs(_, _)
SkipWs(ts, i) == IF i <= Len(ts) /\ ts[i] = " " THEN SkipWs(ts, i + 1) ELSE i

\* Outcome of the JSON decoder at a position of the text: a value and the position
\* after it, or a JSONDecodeError.
Bad == [ok |-> FALSE, val |-> [t |-> "none", v |-> << >>], pos |-> 0]
Good(t, v, pos) == [ok |-> TRUE, val |-> [t |-> t, v |-> v], pos |-> pos]

RECURSIVE ParseValue(_, _), ParseMembers(_, _, _), ParseItems(_, _, _)
\* A JSON value: a string, an object or an array.
ParseValue(ts, i0) ==
    LET i == SkipWs(ts, i0)
        j == SkipWs(ts, i + 1)
    IN IF i > Len(ts) THEN Bad
       ELSE IF ts[i] \in StringTokens THEN Good("str", Unquote[ts[i]], i + 1)
       ELSE IF ts[i] = "{"
            THEN IF j <= Len(ts) /\ ts[j] = "}" THEN Good("obj", << >>, j + 1)
                 ELSE ParseMembers(ts, j, << >>)
       ELSE IF ts[i] = "["
            THEN IF j <= Len(ts) /\ ts[j] = "]" THEN Good("arr", << >>, j + 1)
                 ELSE ParseItems(ts, j, << >>)
       ELSE Bad

\* The members of an object from position i on, up to its closing brace.
ParseMembers(ts, i, acc) ==
    LET c == SkipWs(ts, i + 1)
        r == ParseValue(ts, c + 1)
        n == SkipWs(ts, r.pos)
        acc2 == Append(acc, [k |-> Unquote[ts[i]], v |-> r.val])
    IN IF i > Len(ts) \/ ts[i] \notin StringTokens THEN Bad
       ELSE IF c > Len(ts) \/ ts[c] # ":" THEN Bad
       ELSE IF ~r.ok \/ n > Len(ts) THEN Bad
       ELSE IF ts[n] = "}" THEN Good("obj", acc2, n + 1)
       ELSE IF ts[n] = "," THEN ParseMembers(ts, SkipWs(ts, n + 1), acc2)
       ELSE Bad

\* The items of an array from position i on, up to its closing bracket.
ParseItems(ts, i, acc) ==
    LET r == ParseValue(ts, i)
        n == SkipWs(ts, r.pos)
        acc2 == Append(acc, r.val)
    IN IF ~r.ok \/ n > Len(ts) THEN Bad
       ELSE IF ts[n] = "]" THEN Good("arr", acc2, n + 1)
       ELSE IF ts[n] = "," THEN ParseItems(ts, SkipWs(ts, n + 1), acc2)
       ELSE Bad

\* json.loads(text): the whole text is one JSON value, or the decoder raises.
json_loads(ts) ==
    LET r == ParseValue(ts, 1)
    IN IF r.ok /\ SkipWs(ts, r.pos) > Len(ts) THEN r ELSE Bad

\* The member of an object that gives a key its value: the last one with the key.
Last(members, key) ==
    LET hits == {i \in DOMAIN members : members[i].k = key}
    IN IF hits = {} THEN 0 ELSE CHOOSE i \in hits : \A j \in hits : j <= i

\* The dict json.loads builds from an object of the audit list.
audit_record(tree) ==
    [f \in {AuditFields[i] : i \in DOMAIN AuditFields} |->
        LET i == Last(tree.v, f) IN IF i = 0 THEN Absent ELSE tree.v[i].v.v]

\* The dict json.loads builds from the object of a description.
as_payload(tree) ==
    [f \in {Fields[i] : i \in DOMAIN Fields} |->
        LET i == Last(tree.v, JsonKey(f))
        IN IF f = "audit"
           THEN IF i = 0 THEN << >>
                ELSE [n \in DOMAIN tree.v[i].v.v |-> audit_record(tree.v[i].v.v[n])]
           ELSE IF i = 0 THEN Absent ELSE tree.v[i].v.v]

\* dump_payload(payload)
dump_payload(payload) == json_dumps(payload)

\* parse_payload(desc): {} for blank text and for text json.loads rejects
parse_payload(desc) ==
    LET s == Strip(desc)
        r == json_loads(s)
    IN IF s = EmptyStr THEN EmptyPayload
       ELSE IF r.ok THEN as_payload(r.val)
       ELSE EmptyPayload

\* The audit log a card's description holds.
AuditLog(card) == parse_payload(card.desc).audit

\* datetime.utcnow().isoformat(): the clock is not modelled, every reading is "now".
utcnow == "now"

\* audit_add(payload, role, name, action, meta)
audit_add(payload, role, name, action, meta) ==
    [payload EXCEPT !.audit = Append(@, [ts |-> utcnow, role |-> role, name |-> name,
                                         action |-> action, meta |-> meta])]

\* An update that builds the payload from the form alone instead of the stored one.
update_payload_fresh(old, form) ==
    [EmptyPayload EXCEPT
        !.client = IF form.client # Absent THEN StripValue(form.client) ELSE @,
        !.vehicle = IF form.vehicle # Absent THEN StripValue(form.vehicle) ELSE @]

\* The loop of bookings_tab.update: payload[k] = request.form.get(k, "").strip() for
\* every key k the form carries.
update_payload(old, form) ==
    [old EXCEPT
        !.client = IF form.client # Absent THEN StripValue(form.client) ELSE @,
        !.vehicle = IF form.vehicle # Absent THEN StripValue(form.vehicle) ELSE @]

(* ------------------------------------------------ the Trello REST store  *)

CardIds == 1..Len(cards)

\* Card ids a request may name: the cards of the board and one id Trello does not know.
CardRefs == 1..(MaxCards + 1)

Done(cs) == [err |-> "ok", cards |-> cs]
Fail(e, cs) == [err |-> e, cards |-> cs]

\* POST /cards {idList, name, desc}: Trello assigns the next id.
PostCard(cs, listId, name, desc) ==
    Append(cs, [idList |-> listId, closed |-> FALSE, name |-> name, desc |-> desc])

\* A move done as copy-then-archive: a new card in the target list, the old one closed.
PutCardIdList_recreate(cs, c, listId) ==
    Append([cs EXCEPT ![c].closed = TRUE], [cs[c] EXCEPT !.idList = listId])

\* PUT /cards/{id}?idList=...
PutCardIdList(cs, c, listId) == [cs EXCEPT ![c].idList = listId]

\* An archive that flips the closed flag instead of setting it.
PutCardClosed_toggle(cs, c) == [cs EXCEPT ![c].closed = ~@]

\* PUT /cards/{id}?closed=true
PutCardClosed(cs, c) == [cs EXCEPT ![c].closed = TRUE]

\* PUT /cards/{id} {desc}
PutCardDesc(cs, c, desc) == [cs EXCEPT ![c].desc = desc]

\* GET /lists/{id}/cards answering with every card of the list, archived ones included.
GetListCards_all(cs, listId) ==
    SelectSeq([i \in DOMAIN cs |-> i], LAMBDA i : cs[i].idList = listId)

\* GET /lists/{id}/cards: the ids of the open cards of the list, in board order
\* (Trello leaves archived cards out of a list's cards unless a filter asks for them).
GetListCards(cs, listId) ==
    SelectSeq([i \in DOMAIN cs |-> i], LAMBDA i : cs[i].idList = listId /\ ~cs[i].closed)

(* --------------------------------------------------- class Trello methods *)

\* A card the store answers with for an id it does not have, instead of 404.
BlankCard == [idList |-> EmptyStr, closed |-> FALSE, name |-> "", desc |-> EmptyStr]

\* get_card answering with a blank card for an unknown id.
get_card_blank(cs, c) == IF c \notin DOMAIN cs THEN Ok(BlankCard) ELSE Ok(cs[c])

\* Trello.get_card(card_id): _get raises HTTPError for the 404 of an unknown id.
get_card(cs, c) == IF c \notin DOMAIN cs THEN Raise("HTTPError") ELSE Ok(cs[c])

\* Trello.list_cards(list_id_or_name)
list_cards(cs, list_id_or_name) ==
    LET target == Strip(list_id_or_name)
        r == ResolveList(target)
    IN IF target = EmptyStr THEN Ok(<< >>)
       ELSE IF r.err # "ok" THEN Raise(r.err)
       ELSE IF r.val \notin BoardListIds THEN Raise("HTTPError")
       ELSE Ok(GetListCards(cs, r.val))

\* Trello.create_card(list_id_or_name, name, desc)
create_card(cs, list_id_or_name, name, desc) ==
    LET r == ResolveList(list_id_or_name)
    IN IF r.err # "ok" THEN Fail(r.err, cs)
       ELSE IF r.val \notin BoardListIds THEN Fail("HTTPError", cs)
       ELSE Done(PostCard(cs, r.val, name, desc))

\* A move that the store refuses once the card has left the list it was created in.
move_card_first_wins(cs, c, target_list_id_or_name) ==
    LET r == ResolveList(target_list_id_or_name)
    IN IF r.err # "ok" THEN Fail(r.err, cs)
       ELSE IF c \notin DOMAIN cs \/ r.val \notin BoardListIds
            THEN Fail("HTTPError", cs)
       ELSE IF cs[c].idList # ResolveList(LIST_DEMANDES).val THEN Fail("HTTPError", cs)
       ELSE Done(PutCardIdList(cs, c, r.val))

\* Trello.move_card(card_id, target_list_id_or_name)
move_card(cs, c, target_list_id_or_name) ==
    LET r == ResolveList(target_list_id_or_name)
    IN IF r.err # "ok" THEN Fail(r.err, cs)
       ELSE IF c \notin DOMAIN cs \/ r.val \notin BoardListIds
            THEN Fail("HTTPError", cs)
       ELSE Done(PutCardIdList(cs, c, r.val))

\* Trello.archive_card(card_id)
archive_card(cs, c) ==
    IF c \notin DOMAIN cs THEN Fail("HTTPError", cs)
    ELSE Done(PutCardClosed(cs, c))

\* Trello.update_card(card_id, desc=...)
update_card(cs, c, desc) ==
    IF c \notin DOMAIN cs THEN Fail("HTTPError", cs)
    ELSE Done(PutCardDesc(cs, c, desc))

\* create_booking_card posting to the RESERVED list instead of LIST_DEMANDES.
create_booking_card_reserved(cs, data) ==
    LET payload == [EmptyPayload EXCEPT !.client = data.client,
                                        !.vehicle = data.vehicle, !.type = "booking"]
    IN create_card(cs, LIST_RESERVED, "Nouvelle reservation", dump_payload(payload))

\* Trello.create_booking_card(data)
create_booking_card(cs, data) ==
    LET title == IF StripValue(data.title) = "" THEN "Nouvelle reservation"
                 ELSE StripValue(data.title)
        payload == [EmptyPayload EXCEPT !.client = data.client,
                                        !.vehicle = data.vehicle, !.type = "booking"]
    IN create_card(cs, LIST_DEMANDES, title, dump_payload(payload))

(* ------------------------------------------------------------- inputs    *)

\* Form of POST /bookings/create (values before .strip(); " " is blank text).
CreateForms == [client : {" ", "Amel"}, vehicle : {"", "Clio"}]

\* data of create_booking_card
BookingData == [title : {" "}, client : {"", "Amel"}, vehicle : {"", "Clio"}]

\* Form of POST /bookings/update: a key is Absent when the form does not carry it.
UpdateForms == [client : {Absent, " "}, vehicle : {Absent, "Clio"}]

\* Targets handed to Trello.move_card: every list of the board by id, a list name in
\* another case, a name and an id the board does not have, and the empty string.
MoveTargets ==
    BoardListIds \cup {<<"d", "o", "n", "e">>, <<"x">>, <<"h_none">>, EmptyStr}

\* Form of POST /vehicles/create
VehicleForms == [plate : {"AB1"}]

\* session["user_name"] of the logged-in user
user_name == "admin"

\* An audit record as vehicles.create writes it.
VehicleRecord ==
    [ts |-> utcnow, role |-> user_name, name |-> "vehicle_create",
     action |-> "{plate}", meta |-> "{}"]

\* A booking payload with both references and the type discriminator.
SamplePayload ==
    [EmptyPayload EXCEPT !.client = "Amel", !.vehicle = "Clio", !.type = "booking"]

\* A JSON object inside free text.
EmbeddedText == <<"note", " ">> \o dump_payload(SamplePayload) \o <<" ", "bye">>

\* Descriptions a caller of Trello.create_card hands over: none (the default ""),
\* blank text, free text, a JSON object inside free text, a JSON object between
\* blanks, and a JSON object cut short.
StoredTexts ==
    { EmptyStr, <<" ">>, <<"not", " ", "structured", " ", "data">>, EmbeddedText,
      <<" ">> \o dump_payload(SamplePayload) \o <<" ">>,
      <<"{", " ", Quote("client"), ":">> }

\* The payloads the handlers can build: every field present or not, with or without
\* audit records.
ValidPayloads ==
    [client : {Absent, "", "Amel"}, vehicle : {Absent, "Clio"}, plate : {Absent, "AB1"},
     entity : {Absent, "vehicle"}, type : {Absent, "booking"},
     audit : {<< >>, <<VehicleRecord>>, <<VehicleRecord, VehicleRecord>>}]

\* Each of them with the description dump_payload writes for it.
Dumps == {[payload |-> b, text |-> dump_payload(b)] : b \in ValidPayloads}

\* Descriptions dumped from a payload.
DumpedTexts == {d.text : d \in Dumps}

\* Handlers whose requests two callers send at the same time.
RaceHandlers == {"to_reserved", "to_closed"}

\* The kinds of request that write.
Ops == {"create", "move", "archive", "update"}

\* What a failing store call raises.
StoreErrors == {"HTTPError", "RuntimeError"}

\* Handlers that send one PUT for a card.
PutHandlers == {"to_reserved", "to_closed", "archive"}

(* ------------------------------------------------------------- handlers  *)

\* The outcome of a request: its kind, what the handler raised to its caller, and
\* how the store call that failed, if one did, failed.
Outcome(op, err, store) == [op |-> op, err |-> err, store |-> store]

\* A request that returns no value, or a read that raised.
NoReply ==
    [some |-> FALSE, card |-> 0, status |-> "", payload |-> EmptyPayload, ids |-> << >>]

\* Callers that send requests at the same time, and a caller with no request.
Callers == {"a", "b"}
Idle == [pc |-> "idle", card |-> 0, target |-> EmptyStr, err |-> "ok", n |-> 0]

\* The handler returns or raises: the board is what the call left, and the request's
\* kind and outcome are recorded. No handler catches what a store call raises
\* (r.raise_for_status() in _get, _post, _put).
Apply(op, out) ==
    /\ cards' = out.cards
    /\ result' = Outcome(op, out.err, IF out.err = "HTTPError" THEN "HTTPError" ELSE "ok")
    /\ reply' = NoReply
    /\ UNCHANGED <<env, calls, others>>

\* bookings_tab.create
Create(form) ==
    /\ Len(cards) < MaxCards
    /\ LET payload == [EmptyPayload EXCEPT !.client = StripValue(form.client),
                                           !.vehicle = StripValue(form.vehicle)]
       IN Apply("create", create_card(cards, LIST_DEMANDES, "Nouvelle reservation",
                                      dump_payload(payload)))

\* Trello.create_booking_card called by the booking form handler
CreateBookingCard(data) ==
    /\ Len(cards) < MaxCards
    /\ Apply("create", create_booking_card(cards, data))

\* bookings_tab.to_reserved
ToReserved(c) ==
    /\ c \in CardRefs
    /\ Apply("move", move_card(cards, c, LIST_RESERVED))

\* bookings_tab.to_closed
ToClosed(c) ==
    /\ c \in CardRefs
    /\ Apply("move", move_card(cards, c, LIST_CLOSED))

\* Trello.move_card with a target chosen by the caller
MoveCard(c, target) ==
    /\ c \in CardRefs
    /\ Apply("move", move_card(cards, c, target))

\* Trello.archive_card
ArchiveCard(c) ==
    /\ c \in CardRefs
    /\ Apply("archive", archive_card(cards, c))

\* bookings_tab.update
Update(c, form) ==
    IF c \notin CardIds
    THEN Apply("update", Fail("HTTPError", cards))
    ELSE LET payload == update_payload(parse_payload(cards[c].desc), form)
         IN Apply("update", update_card(cards, c, dump_payload(payload)))

\* vehicles.create; audit_add is called with three arguments after the payload
\* (name, "vehicle_create", {"plate": plate}), which its signature binds to role,
\* name and action, and meta keeps its default {}.
VehicleCreate(form) ==
    /\ Len(cards) < MaxCards
    /\ LET payload == audit_add([EmptyPayload EXCEPT !.entity = "vehicle",
                                                      !.plate = StripValue(form.plate)],
                                user_name, "vehicle_create", "{plate}", "{}")
       IN Apply("create", create_card(cards, LIST_VEHICLES, form.plate,
                                      dump_payload(payload)))

\* Trello.create_card with a description chosen by the caller
CreateCard(desc) ==
    /\ Len(cards) < MaxCards
    /\ Apply("create", create_card(cards, LIST_DEMANDES, "carte", desc))

\* bookings_tab.pdf: get_card, parse_payload, build_simple_pdf of the payload
Pdf(c) ==
    /\ c \in CardRefs
    /\ LET r == get_card(cards, c)
       IN /\ result' = Outcome("pdf", r.err, r.err)
          /\ reply' = IF r.err = "ok"
                       THEN [NoReply EXCEPT !.some = TRUE, !.card = c,
                                            !.payload = parse_payload(r.val.desc)]
                       ELSE [NoReply EXCEPT !.card = c]
    /\ UNCHANGED <<env, cards, calls, others>>

\* dashboard.index: t.list_cards(C.LIST_...) of the list variable of a status
ListCards(s) ==
    /\ s \in Statuses
    /\ LET r == list_cards(cards, ListOf(s))
       IN /\ result' = Outcome("list", r.err, IF r.err = "HTTPError" THEN r.err ELSE "ok")
          /\ reply' = IF r.err = "ok"
                       THEN [NoReply EXCEPT !.some = TRUE, !.status = s, !.ids = r.val]
                       ELSE [NoReply EXCEPT !.status = s]
    /\ UNCHANGED <<env, cards, calls, others>>

\* The list variable a handler moves the card to.
HandlerTarget(h) == IF h = "to_reserved" THEN LIST_RESERVED ELSE LIST_CLOSED

\* A caller sends POST /bookings/to_reserved/<c> or /bookings/to_closed/<c>: the
\* request is in flight until the store applies its PUT.
Begin(p, h, c) ==
    /\ calls[p].pc = "idle"
    /\ c \in CardRefs
    /\ calls' = [calls EXCEPT ![p] = [Idle EXCEPT !.pc = "sent", !.card = c,
                                                  !.target = HandlerTarget(h)]]
    /\ UNCHANGED <<env, cards, result, reply, others>>

\* The store applies the PUT of a request in flight and the handler returns; n is the
\* place of the request in the order the store served them.
Complete(p) ==
    /\ calls[p].pc = "sent"
    /\ LET out == move_card(cards, calls[p].card, calls[p].target)
           served == {calls[q].n : q \in Callers}
       IN /\ cards' = out.cards
          /\ result' = Outcome("move", out.err,
                                IF out.err = "HTTPError" THEN "HTTPError" ELSE "ok")
          /\ calls' = [calls EXCEPT ![p].pc = "done", ![p].err = out.err,
                                    ![p].n = 1 + CHOOSE m \in served :
                                                    \A k \in served : k <= m]
    /\ reply' = NoReply
    /\ UNCHANGED <<env, others>>

\* A failing request that has closed the first card of the board all the same.
Interrupted_closed(cs) == IF cs = << >> THEN cs ELSE [cs EXCEPT ![1].closed = TRUE]

\* The board a request leaves when the store refuses a call of it or the call is never
\* sent: every handler sends one write, and it is the handler's last call, so nothing
\* has been written.
Interrupted(cs) == cs

\* A request whose store call fails: a timeout, an HTTP error status or a rejected
\* token (HTTPError, raised by requests), or credentials missing from the environment
\* (RuntimeError, raised by _check_env before the call is sent).
TransportFails(op, e) ==
    /\ op \in Ops
    /\ cards' = Interrupted(cards)
    /\ result' = Outcome(op, e, e)
    /\ reply' = NoReply
    /\ UNCHANGED <<env, calls, others>>

(* ------------------------------------------------------- the name lookup *)

\* Names a list of a board may carry, and names a caller may ask for: the same words
\* in another case, with a doubled blank, with a blank in front, and unrelated ones.
ListNames ==
    { <<"R", " ", "S">>, <<"r", " ", "s">>, <<"R", " ", " ", "S">>,
      <<" ", "R", " ", "S">>, <<"X">> }

WantedNames == ListNames \cup {EmptyStr, <<" ">>, <<"Y">>, <<"r", " ", " ", "S">>}

\* The boards of at most MaxLists lists, each list with the id of its place.
Boards ==
    UNION { { [i \in 1..n |-> [id |-> BoardLists[i].id, name |-> names[i]]] :
                names \in [1..n -> ListNames] } : n \in 0..MaxLists }

\* get_list_id_by_name called with a name on the board
Lookup(list_name) ==
    /\ lookup' = [lookup EXCEPT !.done = TRUE, !.name = list_name,
                                !.out = get_list_id_in(lookup.lists, list_name)]
    /\ UNCHANGED <<workflow, but_lookup>>

(* ------------------------------------------- update requests side by side *)

\* An update request that has not started.
NoEdit == [pc |-> "idle", card |-> 0, form |-> [client |-> Absent, vehicle |-> Absent],
           payload |-> EmptyPayload, err |-> "ok"]

\* bookings_tab.update up to its write: get_card, parse_payload and the loop over the
\* form keys; the request holds the payload it is about to write.
UpdateRead(p, c, form) ==
    /\ edits[p].pc = "idle"
    /\ LET r == get_card(cards, c)
       IN edits' = [edits EXCEPT ![p] =
                      IF r.err = "ok"
                      THEN [pc |-> "read", card |-> c, form |-> form,
                            payload |-> update_payload(parse_payload(r.val.desc), form),
                            err |-> "ok"]
                      ELSE [NoEdit EXCEPT !.pc = "done", !.card = c, !.form = form,
                                          !.err = r.err]]
    /\ UNCHANGED <<workflow, but_edits>>

\* bookings_tab.update from its write on: update_card with the dumped payload.
UpdateWrite(p) ==
    /\ edits[p].pc = "read"
    /\ LET out == update_card(cards, edits[p].card, dump_payload(edits[p].payload))
       IN /\ cards' = out.cards
          /\ result' = Outcome("update", out.err,
                               IF out.err = "HTTPError" THEN "HTTPError" ELSE "ok")
          /\ edits' = [edits EXCEPT ![p].pc = "done", ![p].err = out.err]
    /\ reply' = NoReply
    /\ UNCHANGED <<env, calls, but_edits>>

(* ----------------------------------------------------- stored contracts *)

\* Booking ids a request path may carry, character by character.
BookingIds == { <<"a", "b">>, <<"a", "-", "b">>, <<"c">> }

\* The id as the string a model holds under meta.booking_id.
IdText(id) ==
    CASE id = <<"a", "b">> -> "ab"
      [] id = <<"a", "-", "b">> -> "a-b"
      [] id = <<"c">> -> "c"

\* str.isalnum() of one character
isalnum(ch) == ch \in {"a", "b", "c"}

\* _safe_id(s)
safe_id(s) == SelectSeq(s, isalnum)

\* contract_path(booking_id): the name of the file under DATA_DIR, without ".json"
contract_path(booking_id) == safe_id(booking_id)

\* A contract model: meta.booking_id, meta.generated_at, header.company_name,
\* booking.title, client.name and vehicle.name; Absent for a key the dict does not
\* have. some is FALSE for None.
None == [some |-> FALSE, booking_id |-> Absent, generated_at |-> Absent,
         company_name |-> Absent, title |-> Absent, client |-> Absent,
         vehicle |-> Absent]

\* The sections of a model with the key of each and the fields under it.
Sections ==
    << [key |-> "meta", fields |-> <<"booking_id", "generated_at">>],
       [key |-> "header", fields |-> <<"company_name">>],
       [key |-> "booking", fields |-> <<"title">>],
       [key |-> "client", fields |-> <<"client">>],
       [key |-> "vehicle", fields |-> <<"vehicle">>] >>

\* The key of a field inside its section.
SectionKey(f) == IF f \in {"client", "vehicle"} THEN "name" ELSE f

\* json.dumps(payload, ensure_ascii=False, indent=2) of a contract model
contract_dumps(m) ==
    LET has(sec) == SelectSeq(sec.fields, LAMBDA f : m[f] # Absent)
        secs == SelectSeq(Sections, LAMBDA sec : has(sec) # << >> \/ sec.key = "meta")
    IN Block("{", [i \in DOMAIN secs |->
                     Member(secs[i].key,
                            Block("{", [j \in DOMAIN has(secs[i]) |->
                                          Member(SectionKey(has(secs[i])[j]),
                                                 <<Quote(m[has(secs[i])[j]])>>)],
                                  "}"))],
             "}")

\* The dict json.loads builds from the text of a contract file.
contract_loads(text) ==
    LET tree == json_loads(text).val
        field(sec, f) ==
            LET i == Last(tree.v, sec.key)
                j == IF i = 0 THEN 0 ELSE Last(tree.v[i].v.v, SectionKey(f))
            IN IF j = 0 THEN Absent ELSE tree.v[i].v.v[j].v.v
    IN [some |-> TRUE,
        booking_id |-> field(Sections[1], "booking_id"),
        generated_at |-> field(Sections[1], "generated_at"),
        company_name |-> field(Sections[2], "company_name"),
        title |-> field(Sections[3], "title"),
        client |-> field(Sections[4], "client"),
        vehicle |-> field(Sections[5], "vehicle")]

\* load_contract(booking_id)
load_contract(fs, booking_id) ==
    LET p == contract_path(booking_id)
    IN IF p \notin DOMAIN fs THEN None ELSE contract_loads(fs[p])

\* save_contract(booking_id, payload)
save_contract(fs, booking_id, payload) ==
    LET p == contract_path(booking_id)
        text == contract_dumps(payload)
    IN [q \in DOMAIN fs \cup {p} |-> IF q = p THEN text ELSE fs[q]]

\* _now_str(): the clock is not modelled.
now_str == "now"

\* _default_contract_model(booking, client, vehicle) for the booking of the id
default_contract_model(booking_id) ==
    [some |-> TRUE, booking_id |-> IdText(booking_id), generated_at |-> now_str,
     company_name |-> "Zohir Location Auto", title |-> "Resa", client |-> "Amel",
     vehicle |-> "Clio"]

\* Models a caller of save_contract hands over.
Models ==
    { default_contract_model(id) : id \in BookingIds } \cup
    { [None EXCEPT !.some = TRUE, !.booking_id = "c", !.company_name = "Acme"] }

\* Form of POST /bookings/contract/save
ContractForms == [company_name : {" ", "Acme"}]

\* No request on contracts has been served.
NoAnswer == [op |-> "none", id |-> EmptyStr, err |-> "ok", model |-> None]

\* save_contract called by itself
SaveContract(id, m) ==
    /\ files' = save_contract(files, id, m)
    /\ answer' = [op |-> "save_contract", id |-> id, err |-> "ok", model |-> m]
    /\ UNCHANGED <<workflow, but_contracts>>

\* load_contract called by itself
LoadContract(id) ==
    /\ answer' = [op |-> "load_contract", id |-> id, err |-> "ok",
                  model |-> load_contract(files, id)]
    /\ UNCHANGED <<workflow, but_contracts, files>>

\* contract_edit generating the model from the board on every request.
contract_edit_regenerate(id, found) ==
    IF ~found
    THEN /\ answer' = [op |-> "contract_edit", id |-> id, err |-> "Error", model |-> None]
         /\ UNCHANGED files
    ELSE /\ files' = save_contract(files, id, default_contract_model(id))
         /\ answer' = [op |-> "contract_edit", id |-> id, err |-> "ok",
                       model |-> default_contract_model(id)]

\* contracts.contract_edit; found says whether _get_booking_client_vehicle returns
\* the three dicts or raises (class Trello of app/trello_client.py has no get_booking,
\* and a class that has one raises for a card the board does not hold).
contract_edit(id, found) ==
    LET model == load_contract(files, id)
    IN IF model.some
       THEN /\ answer' = [op |-> "contract_edit", id |-> id, err |-> "ok", model |-> model]
            /\ UNCHANGED files
       ELSE IF ~found
       THEN /\ answer' = [op |-> "contract_edit", id |-> id, err |-> "Error", model |-> None]
            /\ UNCHANGED files
       ELSE /\ files' = save_contract(files, id, default_contract_model(id))
            /\ answer' = [op |-> "contract_edit", id |-> id, err |-> "ok",
                          model |-> default_contract_model(id)]

ContractEdit(id, found) ==
    /\ contract_edit(id, found)
    /\ UNCHANGED <<workflow, but_contracts>>

\* contracts.contract_save
ContractSave(id, form) ==
    /\ \E stored \in {load_contract(files, id)} :
         \E model \in {IF stored.some THEN stored
                       ELSE [None EXCEPT !.some = TRUE, !.booking_id = IdText(id)]} :
           \E edited \in {[model EXCEPT !.company_name = StripValue(form.company_name),
                                        !.generated_at = now_str]} :
             /\ files' = save_contract(files, id, edited)
             /\ answer' = [op |-> "contract_save", id |-> id, err |-> "ok",
                           model |-> edited]
    /\ UNCHANGED <<workflow, but_contracts>>

\* contracts.contract_pdf: the PDF of the stored model, or a redirect to contract_edit
ContractPdf(id) ==
    /\ answer' = [op |-> "contract_pdf", id |-> id, err |-> "ok",
                  model |-> load_contract(files, id)]
    /\ UNCHANGED <<workflow, but_contracts, files>>

(* ------------------------------------------- the list cache of the v3 client *)

\* A list of the board as GET /boards/{id}/lists answers with it.
L(id, name) == [id |-> id, name |-> name]

\* Boards the v3 client may find: empty, one list, two lists in either order, two
\* lists whose stripped names are equal, and a board where the list has another id.
V3Boards ==
    { << >>,
      << L(<<"h_res">>, <<"R">>) >>,
      << L(<<"h_res">>, <<"R">>), L(<<"h_dem">>, <<"X">>) >>,
      << L(<<"h_dem">>, <<"X">>), L(<<"h_ong">>, <<"R">>) >>,
      << L(<<"h_res">>, <<"R">>), L(<<"h_can">>, <<" ", "R">>) >>,
      << L(<<"h_dem">>, <<"X">>) >> }

\* Names a caller hands to list_id.
V3Names == { <<"R">>, <<" ", "R">>, <<"X">>, <<"Y">> }

\* The dict comprehension of Trello.lists: stripped name -> id, a later list of the
\* same stripped name replacing an earlier one.
lists_dict(lst) ==
    [n \in {Strip(lst[i].name) : i \in DOMAIN lst} |->
        lst[CHOOSE i \in DOMAIN lst :
              /\ Strip(lst[i].name) = n
              /\ \A j \in DOMAIN lst : Strip(lst[j].name) = n => j <= i].id]

\* list_id that raises for a name the cache does not hold without a refresh.
list_id_no_refresh(self, first, second, name) ==
    LET c1 == IF self.cache = << >> THEN lists_dict(first) ELSE self.cache
        n1 == IF self.cache = << >> THEN 1 ELSE 0
        s1 == IF self.cache = << >> THEN first ELSE self.seen
    IN [cache |-> c1, seen |-> s1, fetches |-> n1, name |-> name,
        err |-> IF name \in DOMAIN c1 THEN "ok" ELSE "RuntimeError",
        id |-> IF name \in DOMAIN c1 THEN c1[name] ELSE EmptyStr]

\* Trello.list_id(name) of the v3 client on an object whose cache and last fetched
\* lists are in self; first and second are what the board answers to the first and
\* to the second GET of the call. None and {} are the same empty cache.
list_id(self, first, second, name) ==
    LET c1 == IF self.cache = << >> THEN lists_dict(first) ELSE self.cache
        n1 == IF self.cache = << >> THEN 1 ELSE 0
        s1 == IF self.cache = << >> THEN first ELSE self.seen
        again == name \notin DOMAIN c1
        c2 == IF again THEN lists_dict(second) ELSE c1
        n2 == IF again THEN n1 + 1 ELSE n1
        s2 == IF again THEN second ELSE s1
    IN [cache |-> c2, seen |-> s2, fetches |-> n2, name |-> name,
        err |-> IF name \in DOMAIN c2 THEN "ok" ELSE "RuntimeError",
        id |-> IF name \in DOMAIN c2 THEN c2[name] ELSE EmptyStr]

\* A v3 Trello object after __init__: _lists_cache = None, nothing fetched or asked.
NewTrello ==
    [board |-> << >>, cache |-> << >>, seen |-> << >>, fetches |-> 0,
     name |-> EmptyStr, err |-> "none", id |-> EmptyStr]

\* t.list_id(name); the board may have changed between the two requests of a call.
ListId(name, later) ==
    /\ LET r == list_id(v3, v3.board, later, name)
       IN v3' = [board |-> IF r.fetches = 2 \/ (r.fetches = 1 /\ v3.cache # << >>)
                           THEN later ELSE v3.board,
                 cache |-> r.cache, seen |-> r.seen, fetches |-> r.fetches,
                 name |-> r.name, err |-> r.err, id |-> r.id]
    /\ UNCHANGED <<workflow, but_v3>>

\* Somebody adds, renames, reorders or removes lists on the board.
BoardChanges(b) ==
    /\ v3' = [v3 EXCEPT !.board = b, !.err = "none", !.fetches = 0, !.name = EmptyStr,
                         !.id = EmptyStr]
    /\ UNCHANGED <<workflow, but_v3>>

(* ------------------------------------------------------ login and session *)

\* Passwords a deployment may configure and a form may carry.
Passwords == {"", "pa", "pg"}

\* Forms of POST /auth/login and POST /admin/login: a role (Absent when the form has
\* none), a password and a name.
LoginForms == [role : {Absent, "admin", "agent", "boss"}, password : Passwords,
               name : {" ", "Zed"}]

\* session.clear(): no key is set.
NoSession == [user_role |-> Absent, user_name |-> Absent, is_admin |-> FALSE]

\* The routes behind a decorator: clients.index (login_required), vehicles.create
\* (login_required, admin_required) and the index of bookings_tab (admin_required
\* of admin_auth).
Routes == {"clients.index", "vehicles.create", "bookings.index"}

\* No request has been served.
NoRequest == [op |-> "none", role |-> Absent, password |-> "", route |-> "", ran |-> FALSE]

\* login_post of app/auth.py that sets the role without looking at the password.
login_post_any(cfg, session, form) ==
    LET role == IF form.role = Absent THEN "agent" ELSE form.role
        name == IF StripValue(form.name) # "" THEN StripValue(form.name)
                ELSE IF role = "admin" THEN "Admin" ELSE "Agent"
    IN IF role \in {"admin", "agent"}
       THEN [session EXCEPT !.user_role = role, !.user_name = name]
       ELSE session

\* login_post of app/auth.py: the session after the request
login_post(cfg, session, form) ==
    LET role == IF form.role = Absent THEN "agent" ELSE form.role
        name == IF StripValue(form.name) # "" THEN StripValue(form.name)
                ELSE IF role = "admin" THEN "Admin" ELSE "Agent"
    IN IF role = "admin" /\ form.password = cfg.ADMIN_PASSWORD
       THEN [session EXCEPT !.user_role = "admin", !.user_name = name]
       ELSE IF role = "agent" /\ form.password = cfg.AGENT_PASSWORD
       THEN [session EXCEPT !.user_role = "agent", !.user_name = name]
       ELSE session

\* login_post of admin_auth.py: the session after the request
admin_login_post(cfg, session, form) ==
    IF form.password = cfg.ADMIN_PASSWORD THEN [session EXCEPT !.is_admin = TRUE]
    ELSE session

\* login_required of app/auth.py lets the body run
login_required(session) == session.user_role \notin {Absent, ""}

\* admin_required of app/auth.py lets the body run
admin_required(session) == session.user_role = "admin"

\* admin_required of admin_auth.py lets the body run
is_admin_required(session) == session.is_admin

\* The decorators of a route, outermost first, let the body run.
Admitted(route, session) ==
    CASE route = "clients.index" -> login_required(session)
      [] route = "vehicles.create" -> login_required(session) /\ admin_required(session)
      [] route = "bookings.index" -> is_admin_required(session)

\* POST /auth/login
LoginPost(form) ==
    /\ web' = [web EXCEPT !.session = login_post(web.cfg, web.session, form),
                          !.req = [op |-> "login", role |-> form.role,
                                   password |-> form.password, route |-> "",
                                   ran |-> FALSE]]
    /\ UNCHANGED <<workflow, but_web>>

\* POST /admin/login
AdminLoginPost(form) ==
    /\ web' = [web EXCEPT !.session = admin_login_post(web.cfg, web.session, form),
                          !.req = [op |-> "admin_login", role |-> form.role,
                                   password |-> form.password, route |-> "",
                                   ran |-> FALSE]]
    /\ UNCHANGED <<workflow, but_web>>

\* GET /auth/logout and GET /admin/logout
Logout ==
    /\ web' = [web EXCEPT !.session = NoSession,
                          !.req = [NoRequest EXCEPT !.op = "logout"]]
    /\ UNCHANGED <<workflow, but_web>>

\* A request to a route behind a decorator; ran says whether the body of the
\* handler was called.
Request(route) ==
    /\ web' = [web EXCEPT !.req = [NoRequest EXCEPT !.op = "route", !.route = route,
                                                    !.ran = Admitted(route, web.session)]]
    /\ UNCHANGED <<workflow, but_web>>

(* ------------------------------------------------------ finance totals *)

\* The value of a key a payload does not have (p.get(key) is None).
Missing == 0 - 1

\* Payloads of invoice cards: paid_amount and total present or not.
InvoicePayloads ==
    [paid_amount : {Missing, 0, 100}, total : {Missing, 50}, amount : {Missing}]

\* Payloads of expense cards.
ExpensePayloads == [paid_amount : {Missing}, total : {Missing}, amount : {30}]

\* The sequences of at most n members of a set.
SeqsUpTo(S, n) == UNION { [1..k -> S] : k \in 0..n }

\* sum_amount(cards, field) of finance.index: total += float(p.get(field, 0) or 0)
RECURSIVE sum_amount(_, _)
sum_amount(ps, field) ==
    IF ps = << >> THEN 0
    ELSE (IF Head(ps)[field] = Missing THEN 0 ELSE Head(ps)[field])
         + sum_amount(Tail(ps), field)

\* _sum(cards, key, fallback) of finance.month_report_pdf; fallback "" is None.
RECURSIVE month_sum(_, _, _)
month_sum(ps, key, fallback) ==
    IF ps = << >> THEN 0
    ELSE LET p == Head(ps)
             v == IF p[key] = Missing /\ fallback # "" THEN p[fallback] ELSE p[key]
         IN (IF v = Missing THEN 0 ELSE v) + month_sum(Tail(ps), key, fallback)

\* a or b on numbers
Or(a, b) == IF a # 0 THEN a ELSE b

\* totals of finance.index
index_totals(inv_paid, expenses) ==
    LET paid == Or(sum_amount(inv_paid, "paid_amount"), sum_amount(inv_paid, "total"))
        exp == sum_amount(expenses, "amount")
    IN [done |-> TRUE, paid |-> paid, profit |-> paid - exp]

\* paid and profit of finance.month_report_pdf
report_totals(inv_paid, expenses) ==
    LET paid == month_sum(inv_paid, "paid_amount", "total")
        exp == month_sum(expenses, "amount", "")
    IN [done |-> TRUE, paid |-> paid, profit |-> paid - exp]

NoTotals == [done |-> FALSE, paid |-> 0, profit |-> 0]

\* No finance card and no finance page asked for.
NoFinance == [inv_paid |-> << >>, expenses |-> << >>, index |-> NoTotals, report |-> NoTotals]

\* GET /finance
FinanceIndex ==
    /\ finance' = [finance EXCEPT !.index = index_totals(finance.inv_paid, finance.expenses)]
    /\ UNCHANGED <<workflow, but_finance>>

\* GET /finance/month_report.pdf
MonthReport ==
    /\ finance' = [finance EXCEPT !.report = report_totals(finance.inv_paid, finance.expenses)]
    /\ UNCHANGED <<workflow, but_finance>>

(* ------------------------------------------------- the bootstrap script *)

\* Names handed to ensure_list and ensure_label, and names other users give lists.
ItemNames == { <<"X">>, <<" ", "X">>, <<"Y">> }

\* Colours handed to ensure_label: a valid one and one Trello does not have.
LabelColors == {"red", "mauve"}

VALID_LABEL_COLORS ==
    {"green", "yellow", "orange", "red", "purple", "blue", "sky", "lime", "pink",
     "black", "none"}

\* POST /lists and POST /labels: the item gets the next id of the board; by tells
\* the script's items from those of other users.
PostItem(items, name, color, by) ==
    Append(items, [id |-> Len(items) + 1, name |-> name, color |-> color, by |-> by])

\* The loop of ensure_list and ensure_label comparing the names as they are.
FindItem_exact(items, name) ==
    LET hits == {i \in DOMAIN items : items[i].name = name}
    IN IF hits = {} THEN 0 ELSE CHOOSE i \in hits : \A j \in hits : i <= j

\* The loop of ensure_list and ensure_label: the place of the first item whose
\* stripped name is the stripped name, 0 if there is none.
FindItem(items, name) ==
    LET hits == {i \in DOMAIN items : Strip(items[i].name) = Strip(name)}
    IN IF hits = {} THEN 0 ELSE CHOOSE i \in hits : \A j \in hits : i <= j

\* ensure_list(board_id_long, name, pos): the lists afterwards and the id returned
ensure_list(lists, name) ==
    LET i == FindItem(lists, name)
    IN IF i # 0 THEN [items |-> lists, id |-> lists[i].id]
       ELSE [items |-> PostItem(lists, name, "", "script"), id |-> Len(lists) + 1]

\* ensure_label(board_id_long, name, color): the labels afterwards and the id returned
ensure_label(labels, name, color) ==
    LET c == IF color \notin VALID_LABEL_COLORS THEN "blue" ELSE color
        i == FindItem(labels, name)
    IN IF i # 0 THEN [items |-> labels, id |-> labels[i].id]
       ELSE [items |-> PostItem(labels, name, c, "script"), id |-> Len(labels) + 1]

\* The board before the script has run: no list, no label, nothing asked.
NoBoot == [lists |-> << >>, labels |-> << >>, op |-> "none", name |-> EmptyStr, id |-> 0]

EnsureList(name) ==
    /\ Len(boot.lists) < MaxItems \/ FindItem(boot.lists, name) # 0
    /\ LET r == ensure_list(boot.lists, name)
       IN boot' = [boot EXCEPT !.lists = r.items, !.op = "ensure_list", !.name = name,
                               !.id = r.id]
    /\ UNCHANGED <<workflow, but_boot>>

EnsureLabel(name, color) ==
    /\ Len(boot.labels) < MaxItems \/ FindItem(boot.labels, name) # 0
    /\ LET r == ensure_label(boot.labels, name, color)
       IN boot' = [boot EXCEPT !.labels = r.items, !.op = "ensure_label", !.name = name,
                               !.id = r.id]
    /\ UNCHANGED <<workflow, but_boot>>

\* Another user adds a list to the board.
UserAddsList(name) ==
    /\ Len(boot.lists) < MaxItems
    /\ boot' = [boot EXCEPT !.lists = PostItem(@, name, "", "user"), !.op = "none",
                            !.name = EmptyStr, !.id = 0]
    /\ UNCHANGED <<workflow, but_boot>>

(* --------------------------------------------------------- specification *)

DefaultEnv == [v \in EnvVars |-> Unset]

\* No name has been looked up.
NoLookup == [done |-> FALSE, lists |-> << >>, name |-> EmptyStr, out |-> Raise("none")]

\* The state outside the booking workflow when the program starts.
InitOthers ==
    /\ lookup = NoLookup
    /\ edits = [p \in Callers |-> NoEdit]
    /\ files = << >>
    /\ answer = NoAnswer
    /\ v3 = NewTrello
    /\ web = [cfg |-> [ADMIN_PASSWORD |-> "", AGENT_PASSWORD |-> ""],
              session |-> NoSession, req |-> NoRequest]
    /\ finance = NoFinance
    /\ boot = NoBoot

Init ==
    /\ env = DefaultEnv
    /\ cards = << >>
    /\ result = Outcome("none", "ok", "ok")
    /\ reply = NoReply
    /\ calls = [p \in Callers |-> Idle]
    /\ InitOthers

Next ==
    \/ \E form \in CreateForms : Create(form)
    \/ \E data \in BookingData : CreateBookingCard(data)
    \/ \E c \in CardRefs : ToReserved(c)
    \/ \E c \in CardRefs : ToClosed(c)
    \/ \E c \in CardRefs : \E t \in MoveTargets : MoveCard(c, t)
    \/ \E c \in CardRefs : ArchiveCard(c)
    \/ \E c \in CardRefs : \E form \in UpdateForms : Update(c, form)
    \/ \E op \in Ops : TransportFails(op, "HTTPError")

Spec == Init /\ [][Next]_vars

\* Values a deployment may give a list variable: blank, the id of another workflow
\* list, the id of a list outside the workflow, a list name in another case, a name
\* and an id the board does not have.
EnvValues ==
    {EmptyStr, <<"h_can">>, <<"h_veh">>, <<"d", "o", "n", "e">>, <<"x">>, <<"h_none">>}

\* Environments that override at most one list variable.
Envs ==
    {DefaultEnv} \cup
    {[DefaultEnv EXCEPT ![v] = SetTo(x)] : v \in EnvVars, x \in EnvValues}

InitConfig ==
    /\ env \in Envs
    /\ cards = << >>
    /\ result = Outcome("none", "ok", "ok")
    /\ reply = NoReply
    /\ calls = [p \in Callers |-> Idle]
    /\ InitOthers

\* The same program started under any of the environments.
SpecConfig == InitConfig /\ [][Next]_vars

\* What the PUT of a handler does to the board.
Written(h, c) ==
    CASE h = "to_reserved" -> move_card(cards, c, LIST_RESERVED)
      [] h = "to_closed" -> move_card(cards, c, LIST_CLOSED)
      [] h = "archive" -> archive_card(cards, c)

\* requests.put(..., timeout=30) raises Timeout when no response arrives in time: the
\* store may have applied the PUT before the response was lost, and the handler
\* raises without knowing.
ResponseLost(h, c) ==
    /\ c \in CardRefs
    /\ Written(h, c).err = "ok"
    /\ cards' = Written(h, c).cards
    /\ result' = Outcome(IF h = "archive" THEN "archive" ELSE "move", "Timeout", "Timeout")
    /\ reply' = NoReply
    /\ UNCHANGED <<env, calls, others>>

\* The route handlers that write, with the failures of their store calls.
NextOps ==
    \/ \E form \in CreateForms : Create(form)
    \/ \E form \in VehicleForms : VehicleCreate(form)
    \/ \E c \in CardRefs : ToReserved(c)
    \/ \E c \in CardRefs : ToClosed(c)
    \/ \E c \in CardRefs : ArchiveCard(c)
    \/ \E c \in CardRefs : \E form \in UpdateForms : Update(c, form)
    \/ \E op \in Ops : \E e \in StoreErrors : TransportFails(op, e)
    \/ \E h \in PutHandlers : \E c \in CardRefs : ResponseLost(h, c)

SpecOps == Init /\ [][NextOps]_vars

\* Updates of cards whose description the program wrote or a caller chose.
NextUpdate ==
    \/ \E form \in CreateForms : Create(form)
    \/ \E form \in VehicleForms : VehicleCreate(form)
    \/ \E desc \in StoredTexts : CreateCard(desc)
    \/ \E c \in CardRefs : ToReserved(c)
    \/ \E c \in CardRefs : \E form \in UpdateForms : Update(c, form)

SpecUpdate == Init /\ [][NextUpdate]_vars

\* Two callers updating cards at the same time.
NextEdit ==
    \/ \E form \in CreateForms : Create(form)
    \/ \E p \in Callers : \E c \in CardRefs : \E form \in UpdateForms : UpdateRead(p, c, form)
    \/ \E p \in Callers : UpdateWrite(p)

SpecEdit == Init /\ [][NextEdit]_vars

\* The contract store used directly.
NextStore ==
    \/ \E id \in BookingIds : \E m \in Models : SaveContract(id, m)
    \/ \E id \in BookingIds : LoadContract(id)

SpecStore == Init /\ [][NextStore]_vars

\* The contract routes.
NextContracts ==
    \/ \E id \in BookingIds : \E found \in BOOLEAN : ContractEdit(id, found)
    \/ \E id \in BookingIds : \E form \in ContractForms : ContractSave(id, form)
    \/ \E id \in BookingIds : ContractPdf(id)

SpecContracts == Init /\ [][NextContracts]_vars

\* One v3 client object on a board that changes under it.
NextV3 ==
    \/ \E n \in V3Names : \E later \in V3Boards : ListId(n, later)
    \/ \E b \in V3Boards : BoardChanges(b)

SpecV3 == Init /\ [][NextV3]_vars

\* One browser session against a deployment with any configured passwords.
InitWeb ==
    /\ env = DefaultEnv
    /\ cards = << >>
    /\ result = Outcome("none", "ok", "ok")
    /\ reply = NoReply
    /\ calls = [p \in Callers |-> Idle]
    /\ lookup = NoLookup
    /\ edits = [p \in Callers |-> NoEdit]
    /\ files = << >>
    /\ answer = NoAnswer
    /\ v3 = NewTrello
    /\ web \in [cfg : [ADMIN_PASSWORD : {"", "pa"}, AGENT_PASSWORD : {"", "pg", "pa"}],
                 session : {NoSession}, req : {NoRequest}]
    /\ finance = NoFinance
    /\ boot = NoBoot

NextWeb ==
    \/ \E form \in LoginForms : LoginPost(form)
    \/ \E form \in LoginForms : AdminLoginPost(form)
    \/ Logout
    \/ \E route \in Routes : Request(route)

SpecWeb == InitWeb /\ [][NextWeb]_vars

\* The two finance pages on any cards of the paid-invoices and expenses lists.
InitFinance ==
    /\ env = DefaultEnv
    /\ cards = << >>
    /\ result = Outcome("none", "ok", "ok")
    /\ reply = NoReply
    /\ calls = [p \in Callers |-> Idle]
    /\ lookup = NoLookup
    /\ edits = [p \in Callers |-> NoEdit]
    /\ files = << >>
    /\ answer = NoAnswer
    /\ v3 = NewTrello
    /\ web = [cfg |-> [ADMIN_PASSWORD |-> "", AGENT_PASSWORD |-> ""],
              session |-> NoSession, req |-> NoRequest]
    /\ finance \in [inv_paid : SeqsUpTo(InvoicePayloads, MaxInvoices),
                     expenses : SeqsUpTo(ExpensePayloads, 1),
                     index : {NoTotals}, report : {NoTotals}]
    /\ boot = NoBoot

NextFinance == FinanceIndex \/ MonthReport

SpecFinance == InitFinance /\ [][NextFinance]_vars

\* The bootstrap script run again and again on a board other users add lists to.
NextBoot ==
    \/ \E n \in ItemNames : EnsureList(n)
    \/ \E n \in ItemNames : \E c \in LabelColors : EnsureLabel(n, c)
    \/ \E n \in ItemNames : UserAddsList(n)

SpecBoot == Init /\ [][NextBoot]_vars

\* Name lookups on a board that may be any of the boards.
InitLookup ==
    /\ env = DefaultEnv
    /\ cards = << >>
    /\ result = Outcome("none", "ok", "ok")
    /\ reply = NoReply
    /\ calls = [p \in Callers |-> Idle]
    /\ lookup \in {[NoLookup EXCEPT !.lists = b] : b \in Boards}
    /\ edits = [p \in Callers |-> NoEdit]
    /\ files = << >>
    /\ answer = NoAnswer
    /\ v3 = NewTrello
    /\ web = [cfg |-> [ADMIN_PASSWORD |-> "", AGENT_PASSWORD |-> ""],
              session |-> NoSession, req |-> NoRequest]
    /\ finance = NoFinance
    /\ boot = NoBoot

NextLookup == \E n \in WantedNames : Lookup(n)

SpecLookup == InitLookup /\ [][NextLookup]_vars

\* Reads of the board next to the requests that fill and change it.
NextRead ==
    \/ \E form \in CreateForms : Create(form)
    \/ \E desc \in StoredTexts : CreateCard(desc)
    \/ \E c \in CardRefs : ToReserved(c)
    \/ \E c \in CardRefs : ArchiveCard(c)
    \/ \E c \in CardRefs : Pdf(c)
    \/ \E s \in Statuses : ListCards(s)

SpecRead == Init /\ [][NextRead]_vars

\* Descriptions dumped from a payload and read back.
NextCodec ==
    \/ \E desc \in DumpedTexts \cup StoredTexts : CreateCard(desc)
    \/ \E c \in CardRefs : Pdf(c)

SpecCodec == Init /\ [][NextCodec]_vars

\* Two callers moving cards at the same time.
NextRace ==
    \/ \E form \in CreateForms : Create(form)
    \/ \E p \in Callers : \E h \in RaceHandlers : \E c \in CardRefs : Begin(p, h, c)
    \/ \E p \in Callers : Complete(p)

SpecRace == Init /\ [][NextRace]_vars

\* Booking creation alone, under any of the environments.
NextCreate ==
    \/ \E form \in CreateForms : Create(form)
    \/ \E data \in BookingData : CreateBookingCard(data)
    \/ TransportFails("create", "HTTPError")

SpecCreate == InitConfig /\ [][NextCreate]_vars

(* ------------------------------------------------- status of a booking   *)

\* The container of a status: the board list its variable resolves to, if any.
ContainerOf(s) == ResolveList(ListOf(s))

\* The statuses whose container holds the card.
StatusesOf(card) ==
    {s \in Statuses : ContainerOf(s).err = "ok" /\ ContainerOf(s).val = card.idList}

\* The transition table: <<action, from, to>>.
TransitionTable ==
    { <<"confirm", "REQUESTED", "RESERVED">>,
      <<"start_rental", "RESERVED", "ONGOING">>,
      <<"complete", "ONGOING", "DONE">>,
      <<"cancel", "REQUESTED", "CANCELED">>,
      <<"cancel", "RESERVED", "CANCELED">>,
      <<"cancel", "ONGOING", "CANCELED">>,
      <<"revert_to_requested", "RESERVED", "REQUESTED">> }

Edges == {<<e[2], e[3]>> : e \in TransitionTable}

AllowedFrom(action) == {e[2] : e \in {x \in TransitionTable : x[1] = action}}

\* The card c is moved to another list by the step.
Relocated(c) == c \in DOMAIN cards' /\ cards'[c].idList # cards[c].idList

\* The step adds a card to the board.
CardAdded == Len(cards') > Len(cards)

NewCard == cards'[Len(cards')]

(* ---------------------------------------------------------------- claims *)

\* C1: every status change that takes effect is an edge of the transition table
\* (a move from a list that is not an allowed source is rejected).
C1_OnlyTableEdges ==
    [][\A c \in CardIds :
         Relocated(c) =>
           \E s \in StatusesOf(cards[c]), t \in StatusesOf(cards'[c]) :
              <<s, t>> \in Edges]_vars

\* C2: a transition request that is not allowed from the booking's current status
\* performs no mutation: to_reserved (confirm) on a card that is not REQUESTED and
\* to_closed (complete) on a card that is not ONGOING leave the board unchanged.
C2_RejectedRequestMutatesNothing ==
    [][\A c \in CardIds :
         \/ ToReserved(c) /\ AllowedFrom("confirm") \cap StatusesOf(cards[c]) = {}
         \/ ToClosed(c) /\ AllowedFrom("complete") \cap StatusesOf(cards[c]) = {}
         => cards' = cards]_vars

\* C3: DONE and CANCELED are terminal: a card in the DONE or CANCELED container is
\* never moved to another container by a later operation.
C3_TerminalStatusesStay ==
    [][\A c \in CardIds :
         StatusesOf(cards[c]) \cap {"DONE", "CANCELED"} # {} => ~Relocated(c)]_vars

\* C4: in every reachable state each booking card sits in one of the five workflow
\* lists, so its status is one of the five values.
C4_StatusIsOneOfFive == \A c \in CardIds : StatusesOf(cards[c]) # {}

\* C5: every operation that changes a booking's status appends exactly one audit
\* record to the booking's audit log, and the record describes the transition.
C5_StatusChangeAppendsAudit ==
    [][\A c \in CardIds :
         Relocated(c) =>
           /\ Len(AuditLog(cards'[c])) = Len(AuditLog(cards[c])) + 1
           /\ SubSeq(AuditLog(cards'[c]), 1, Len(AuditLog(cards[c]))) = AuditLog(cards[c])
           /\ LET rec == AuditLog(cards'[c])[Len(AuditLog(cards'[c]))]
              IN /\ rec.from_status \in StatusesOf(cards[c])
                 /\ rec.to_status \in StatusesOf(cards'[c])]_vars

\* C6: a successful create adds exactly one card, and that card is in the container
\* configured for REQUESTED (the list LIST_DEMANDES resolves to) and in no other
\* list, whatever fields the caller supplied and whatever the configuration; a
\* create that fails adds none.
C6_CreatedInRequested ==
    [][/\ (result'.op = "create" /\ result'.err = "ok") => CardAdded
       /\ CardAdded =>
            /\ result' = Outcome("create", "ok", "ok")
            /\ Len(cards') = Len(cards) + 1
            /\ SubSeq(cards', 1, Len(cards)) = cards
            /\ ContainerOf("REQUESTED").err = "ok"
            /\ NewCard.idList = ContainerOf("REQUESTED").val
            /\ "REQUESTED" \in StatusesOf(NewCard)
            /\ NewCard.idList \in BoardListIds
            /\ ~NewCard.closed]_vars

\* C6 witness: a booking just created by create_booking_card with both references
\* empty sits in the REQUESTED container, here the list a configured name resolves to.
C6_Witness ==
    /\ result = Outcome("create", "ok", "ok")
    /\ Len(cards) = 1
    /\ env["LIST_DEMANDES"] = SetTo(<<"d", "o", "n", "e">>)
    /\ cards[1].idList = <<"h_done">>
    /\ parse_payload(cards[1].desc).type = "booking"
    /\ parse_payload(cards[1].desc).client = ""
    /\ parse_payload(cards[1].desc).vehicle = ""

\* C7: immediately after a successful create_booking the stored audit log has
\* length 1 and its single record has action "booking_create".
C7_CreateWritesOneAuditRecord ==
    [][CardAdded =>
         /\ Len(AuditLog(NewCard)) = 1
         /\ AuditLog(NewCard)[1].action = "booking_create"]_vars

\* C8: create_booking with the client reference and the vehicle reference both empty
\* fails and writes nothing: no card is created.
C8_EmptyReferencesRejected ==
    [][\A data \in BookingData :
         (data.client = "" /\ data.vehicle = "" /\ CreateBookingCard(data))
         => (cards' = cards /\ result'.err # "ok")]_vars

\* C9: a move keeps the booking's id: the set of card ids is unchanged, every card
\* keeps its name, description and closed flag, and at most one card changes list.
C9_MoveKeepsIdentity ==
    [][result'.op = "move" =>
         /\ DOMAIN cards' = DOMAIN cards
         /\ \A k \in CardIds :
              /\ cards'[k].name = cards[k].name
              /\ cards'[k].desc = cards[k].desc
              /\ cards'[k].closed = cards[k].closed
         /\ \A j, k \in CardIds : Relocated(j) /\ Relocated(k) => j = k]_vars

\* C9 witness: a card created in REQUESTED has just been moved to the RESERVED list.
C9_Witness ==
    /\ result = Outcome("move", "ok", "ok")
    /\ Len(cards) >= 1
    /\ cards[1].idList = <<"h_res">>
    /\ ~cards[1].closed

\* C10: no two statuses share a container, so the container that holds a booking
\* determines its status unambiguously, under every accepted configuration.
C10_ContainerDeterminesStatus ==
    \A c \in CardIds : \A s, t \in StatusesOf(cards[c]) : s = t

\* A description that is present but cannot be read as a booking: text json.loads
\* rejects, or an object without the type discriminator "_type".
Malformed(desc) ==
    /\ Strip(desc) # EmptyStr
    /\ \/ ~json_loads(Strip(desc)).ok
       \/ parse_payload(desc).type = Absent

\* C11: reading a booking whose description is present but not parseable as a booking
\* (not well-formed JSON, or without the type discriminator) fails with an error and
\* hands no booking, blank or otherwise, to the caller.
C11_MalformedRecordIsAnError ==
    (result.op = "pdf" /\ reply.card \in CardIds /\ Malformed(cards[reply.card].desc))
    => (result.err # "ok" /\ ~reply.some)

\* The sequence a is a prefix of the sequence b.
IsPrefix(a, b) == Len(a) <= Len(b) /\ SubSeq(b, 1, Len(a)) = a

\* C12: the audit log of a card is append-only: every step, field updates of the
\* payload included, leaves the records the log held as an unchanged prefix of the
\* log it holds afterwards.
C12_AuditLogAppendOnly ==
    [][\A c \in CardIds :
         \/ cards'[c].desc = cards[c].desc
         \/ IsPrefix(AuditLog(cards[c]), AuditLog(cards'[c]))]_vars

\* C12 witness: a card that holds an audit record has had a field of its payload
\* updated, and the record is still there.
C12_Witness ==
    /\ result = Outcome("update", "ok", "ok")
    /\ Len(cards) >= 1
    /\ AuditLog(cards[1]) = <<VehicleRecord>>
    /\ parse_payload(cards[1].desc).vehicle = "Clio"

\* The audit log of card c before the step; empty for a card the step creates.
AuditBefore(c) == IF c \in CardIds THEN AuditLog(cards[c]) ELSE << >>

\* C13: every successful create and every successful move performs exactly one write
\* to the store (one card is added, or one card is changed, and nothing else) and
\* exactly one append to an audit log (one card's log is one record longer, every
\* other log is as it was).
C13_OneWriteOneAuditAppend ==
    [][(result'.op \in {"create", "move"} /\ result'.err = "ok") =>
         /\ \/ /\ Len(cards') = Len(cards) + 1
               /\ SubSeq(cards', 1, Len(cards)) = cards
            \/ /\ DOMAIN cards' = DOMAIN cards
               /\ Cardinality({c \in CardIds : cards'[c] # cards[c]}) <= 1
         /\ \E c \in DOMAIN cards' :
              /\ Len(AuditLog(cards'[c])) = Len(AuditBefore(c)) + 1
              /\ IsPrefix(AuditBefore(c), AuditLog(cards'[c]))
              /\ \A k \in DOMAIN cards' \ {c} : AuditLog(cards'[k]) = AuditBefore(k)]_vars

\* C14: reading a booking by an id the board does not have fails (the HTTPError that
\* _get raises for the 404 response reaches the caller) and returns no booking.
C14_UnknownIdFails ==
    (result.op = "pdf" /\ reply.card \notin CardIds)
    => (result.err = "HTTPError" /\ ~reply.some /\ reply.payload = EmptyPayload)

\* C14 witness: the board holds a card, and a read of an id it does not hold has
\* just failed.
C14_Witness ==
    /\ result = Outcome("pdf", "HTTPError", "HTTPError")
    /\ Len(cards) >= 1
    /\ reply.card = Len(cards) + 1
    /\ ~reply.some

\* C15: archive is non-destructive and idempotent: a successful archive request keeps
\* every card and every field and sets the closed flag of one card, and archiving a
\* card of the board, archived already or not, succeeds and, done twice, leaves the
\* board that doing it once leaves.
C15_ArchiveIdempotent ==
    /\ [](\A c \in CardIds :
            LET once == archive_card(cards, c)
                twice == archive_card(once.cards, c)
            IN /\ once.err = "ok" /\ twice.err = "ok"
               /\ twice.cards = once.cards
               /\ once.cards = [cards EXCEPT ![c].closed = TRUE]
               /\ cards[c].closed => once.cards = cards)
    /\ [][(result'.op = "archive" /\ result'.err = "ok") =>
            \E c \in CardIds : cards' = archive_card(cards, c).cards]_vars

\* C15 witness: a card has just been archived: it is closed and still on the board,
\* in its list and with its description.
C15_Witness ==
    /\ result = Outcome("archive", "ok", "ok")
    /\ Len(cards) >= 1
    /\ cards[1].closed
    /\ cards[1].idList = <<"h_res">>
    /\ parse_payload(cards[1].desc).client = "Amel"

\* C16: round trip: for every valid payload b, a description that dump_payload wrote
\* for b is parsed back by parse_payload into a payload equal to b in all fields.
C16_RoundTrip ==
    (result.op = "pdf" /\ result.err = "ok")
    => \A d \in Dumps :
          cards[reply.card].desc = d.text => reply.payload = d.payload

\* C16 witness: a payload with an empty string, an absent key and two audit records
\* has been dumped into a description and read back.
C16_Witness ==
    /\ result = Outcome("pdf", "ok", "ok")
    /\ reply.some
    /\ reply.payload = [EmptyPayload EXCEPT !.client = "", !.plate = "AB1",
                                            !.type = "booking",
                                            !.audit = <<VehicleRecord, VehicleRecord>>]
    /\ cards[reply.card].desc = dump_payload(reply.payload)

\* The step is the effect of at most one write: one card added, or at most one card
\* changed.
AtMostOneWrite ==
    \/ /\ Len(cards') = Len(cards) + 1
       /\ SubSeq(cards', 1, Len(cards)) = cards
    \/ /\ DOMAIN cards' = DOMAIN cards
       /\ Cardinality({c \in CardIds : cards'[c] # cards[c]}) <= 1

Writers(c) ==
    {p \in Callers : calls[p].pc = "done" /\ calls[p].card = c /\ calls[p].err = "ok"}

\* C18: when two callers move the same card at the same time, in every interleaving
\* neither move is rejected, each applied move changes the list of that card alone and
\* neither adds nor removes a card, and the card is in the one list that the move the
\* store served last named (last write wins).
C18_LastWriteWins ==
    /\ [](\A c \in CardIds :
            Writers(c) # {} =>
              LET last == CHOOSE p \in Writers(c) :
                            \A q \in Writers(c) : calls[q].n <= calls[p].n
              IN cards[c].idList = ResolveList(calls[last].target).val)
    /\ [][\A p \in Callers :
            (calls[p].pc = "sent" /\ calls'[p].pc = "done" /\ calls[p].card \in CardIds)
            => /\ calls'[p].err = "ok"
               /\ DOMAIN cards' = DOMAIN cards
               /\ cards'[calls[p].card].idList = ResolveList(calls[p].target).val
               /\ \A k \in CardIds \ {calls[p].card} : cards'[k] = cards[k]]_vars

\* C18 witness: two requests on card 1 with different targets were both served, the
\* move to the RESERVED list last, and the card is in the RESERVED list.
C18_Witness ==
    /\ calls["a"] = [pc |-> "done", card |-> 1, target |-> LIST_RESERVED,
                     err |-> "ok", n |-> 2]
    /\ calls["b"] = [pc |-> "done", card |-> 1, target |-> LIST_CLOSED,
                     err |-> "ok", n |-> 1]
    /\ Len(cards) >= 1
    /\ cards[1].idList = <<"h_res">>

\* The cards the last listing handed to the caller.
Listed == {reply.ids[k] : k \in DOMAIN reply.ids}

\* A listing of the container of a status has just succeeded.
ListingDone ==
    /\ result.op = "list" /\ result.err = "ok" /\ reply.some
    /\ ContainerOf(reply.status).err = "ok"

\* C19, as stated: a listing of a status returns all and only the cards that are in
\* the container of the status when it is called, archived or not.
C19_ListsAllOfContainer ==
    ListingDone
    => Listed = {c \in CardIds : cards[c].idList = ContainerOf(reply.status).val}

\* C19, amended: a listing of a status returns, each once, all and only the cards
\* that are in the container of the status and not archived on the board as it is
\* when the listing is called; nothing is served from an earlier listing.
C19_ListsOpenCardsOfContainer ==
    ListingDone
    => /\ Listed = {c \in CardIds : /\ cards[c].idList = ContainerOf(reply.status).val
                                     /\ ~cards[c].closed}
       /\ Cardinality(Listed) = Len(reply.ids)

\* C19 witness: a card created in the REQUESTED container was moved, and the listing
\* of RESERVED that followed returned it.
C19_Witness ==
    /\ ListingDone
    /\ reply.status = "RESERVED"
    /\ reply.ids = <<1>>
    /\ cards[1].idList = <<"h_res">>
    /\ ~cards[1].closed

\* The first balanced object of a text: the object that starts at the first brace
\* from which a whole object can be read.
FirstObject(ts) ==
    LET starts == {i \in DOMAIN ts : ts[i] = "{" /\ ParseValue(ts, i).ok}
    IN IF starts = {} THEN Bad
       ELSE ParseValue(ts, CHOOSE i \in starts : \A j \in starts : i <= j)

\* C20: reading a description that holds an object inside free text yields the fields
\* of the first balanced object of the text, and yields the empty payload only when
\* the text holds no such object.
C20_EmbeddedObjectIsParsed ==
    (result.op = "pdf" /\ result.err = "ok")
    => LET o == FirstObject(cards[reply.card].desc)
       IN reply.payload = IF o.ok THEN as_payload(o.val) ELSE EmptyPayload

\* C21: every audit record written by vehicles.create names the user in its name
\* field, the action "vehicle_create" in its action field and the mapping with the
\* plate in its meta field.
C21_AuditFieldsKeepMeaning ==
    \A c \in CardIds :
        cards[c].idList = LIST_VEHICLES
        => \A k \in DOMAIN AuditLog(cards[c]) :
              LET r == AuditLog(cards[c])[k]
              IN /\ r.name = user_name
                 /\ r.action = "vehicle_create"
                 /\ r.meta = "{plate}"

\* The lists of the last lookup whose name, seen through key, is the wanted name seen
\* through key.
Tier(key(_)) ==
    {i \in DOMAIN lookup.lists : key(lookup.lists[i].name) = key(lookup.name)}

TierExact == Tier(Strip)
TierFolded == Tier(LAMBDA n : Casefold(Strip(n)))
TierRelaxed == Tier(Norm)

\* The first non-empty tier in priority order, or the empty set.
WinningTier ==
    IF TierExact # {} THEN TierExact
    ELSE IF TierFolded # {} THEN TierFolded
    ELSE TierRelaxed

StoredPayload(desc) ==
    LET o == FirstObject(desc)
    IN IF o.ok THEN as_payload(o.val) ELSE EmptyPayload

\* The keys the update route never writes.
KeptFields == {"plate", "entity", "type", "audit"}

\* C23: a successful update request leaves every key but client and vehicle of the
\* stored payload of the card as it was, the audit log included, and leaves the list,
\* the name and the closed flag of the card and every other card as they were,
\* whatever the description of the card held.
C23_UpdateFrame ==
    [][(result'.op = "update" /\ result'.err = "ok")
       => /\ DOMAIN cards' = DOMAIN cards
          /\ \A c \in CardIds :
                /\ cards'[c].idList = cards[c].idList
                /\ cards'[c].name = cards[c].name
                /\ cards'[c].closed = cards[c].closed
                /\ \/ cards'[c].desc = cards[c].desc
                   \/ \A f \in KeptFields :
                         StoredPayload(cards'[c].desc)[f] = StoredPayload(cards[c].desc)[f]]_vars

\* The keys of the form of an update request.
Submitted(form) == {k \in {"client", "vehicle"} : form[k] # Absent}

\* C24: when two update requests on the same card that submit different keys have
\* both written, the stored payload holds the stripped value each of them submitted,
\* in whatever order their reads and writes were served.
C24_NoLostUpdate ==
    \A p, q \in Callers :
        ( /\ p # q
          /\ edits[p].pc = "done" /\ edits[q].pc = "done"
          /\ edits[p].err = "ok" /\ edits[q].err = "ok"
          /\ edits[p].card = edits[q].card
          /\ edits[p].card \in CardIds
          /\ Submitted(edits[p].form) \cap Submitted(edits[q].form) = {} )
        => \A k \in Submitted(edits[p].form) :
              parse_payload(cards[edits[p].card].desc)[k] = StripValue(edits[p].form[k])

\* C25: saving a model for a booking id leaves what load_contract returns for every
\* other booking id as it was, and load_contract of the id returns the saved model.
C25_ContractsIsolated ==
    [][answer'.op = "save_contract"
       => /\ load_contract(files', answer'.id) = answer'.model
          /\ \A b \in BookingIds \ {answer'.id} :
                load_contract(files', b) = load_contract(files, b)]_vars

\* C26: a contract_edit request writes the store only when no model is stored for
\* the id, and then stores the default model; no contract_edit or contract_pdf request
\* changes a stored model; and contract_save leaves meta.booking_id and the booking,
\* client and vehicle sections of a stored model as they were.
C26_StoredModelKept ==
    [][/\ (answer'.op = "contract_edit" /\ files' # files)
          => /\ ~load_contract(files, answer'.id).some
             /\ load_contract(files', answer'.id) = default_contract_model(answer'.id)
       /\ answer'.op \in {"contract_edit", "contract_pdf"}
          => \A b \in BookingIds :
                load_contract(files, b).some
                => load_contract(files', b) = load_contract(files, b)
       /\ (answer'.op = "contract_save" /\ load_contract(files, answer'.id).some)
          => LET old == load_contract(files, answer'.id)
                 new == load_contract(files', answer'.id)
             IN /\ new.some
                /\ new.booking_id = old.booking_id
                /\ new.title = old.title
                /\ new.client = old.client
                /\ new.vehicle = old.vehicle]_vars

\* C26 witness: the model generated for booking ab was edited with contract_save, and
\* the contract_edit request that followed returned the edited model and left it
\* stored.
C26_Witness ==
    /\ answer.op = "contract_edit"
    /\ answer.id = <<"a", "b">>
    /\ answer.model = [default_contract_model(<<"a", "b">>) EXCEPT !.company_name = "Acme"]
    /\ load_contract(files, <<"a", "b">>) = answer.model

\* C28: a call of list_id of the v3 client fetches the lists of the board at most
\* twice; for a name the cache holds it fetches nothing and returns the cached id; it
\* raises RuntimeError only after at least one fetch whose lists do not hold the
\* name; and an id it returns is the id of a list of that stripped name among the
\* lists fetched last.
C28_ListIdCache ==
    [][v3'.err # "none"
       => /\ v3'.fetches <= 2
          /\ v3'.name \in DOMAIN v3.cache
             => /\ v3'.fetches = 0
                /\ v3'.err = "ok"
                /\ v3'.id = v3.cache[v3'.name]
          /\ v3'.err = "RuntimeError"
             => /\ v3'.fetches >= 1
                /\ \A i \in DOMAIN v3'.seen : Strip(v3'.seen[i].name) # v3'.name
          /\ v3'.err = "ok"
             => \E i \in DOMAIN v3'.seen :
                   /\ Strip(v3'.seen[i].name) = v3'.name
                   /\ v3'.seen[i].id = v3'.id]_vars

\* C28 witness: the first fetch of a call found no list, the refresh found the list
\* R, and the call returned its id after two fetches.
C28_Witness ==
    /\ v3.err = "ok"
    /\ v3.fetches = 2
    /\ v3.name = <<"R">>
    /\ v3.id = <<"h_res">>
    /\ v3.cache # << >>

\* C27: at every step, the role of the session changes only to the role of a login
\* form whose password is the one configured for that role, and the admin flag is set
\* only by an admin login with the configured admin password; a request runs the body
\* of a login_required handler only if the session holds a role, of an admin_required
\* handler only if that role is admin (or, for the routes of admin_auth, the flag is
\* set); and a logout leaves a session that admits no protected route.
C27_AccessControl ==
    [][/\ (web'.session.user_role # web.session.user_role
           /\ web'.session.user_role # Absent)
          => /\ web'.req.op = "login"
             /\ web'.session.user_role \in {"admin", "agent"}
             /\ web'.session.user_role = (IF web'.req.role = Absent THEN "agent"
                                          ELSE web'.req.role)
             /\ web'.req.password = (IF web'.session.user_role = "admin"
                                     THEN web.cfg.ADMIN_PASSWORD
                                     ELSE web.cfg.AGENT_PASSWORD)
       /\ (web'.session.is_admin /\ ~web.session.is_admin)
          => /\ web'.req.op = "admin_login"
             /\ web'.req.password = web.cfg.ADMIN_PASSWORD
       /\ (web'.req.op = "route" /\ web'.req.ran)
          => /\ web'.session = web.session
             /\ web'.req.route = "clients.index"
                => web.session.user_role \in {"admin", "agent"}
             /\ web'.req.route = "vehicles.create" => web.session.user_role = "admin"
             /\ web'.req.route = "bookings.index" => web.session.is_admin
       /\ web'.req.op = "logout"
          => /\ web'.session.user_role = Absent
             /\ ~web'.session.is_admin
             /\ \A route \in Routes : ~Admitted(route, web'.session)]_vars

\* C27 witness: with the admin password pa configured, an agent is logged in and the
\* request to the admin route vehicles.create has just been turned away.
C27_Witness ==
    /\ web.cfg.ADMIN_PASSWORD = "pa"
    /\ web.session.user_role = "agent"
    /\ web.req = [NoRequest EXCEPT !.op = "route", !.route = "vehicles.create"]

\* C29: for the same paid-invoice and expense cards, the paid total and the estimated
\* profit of the finance index page equal those of the month report.
C29_FinanceTotalsAgree ==
    (finance.index.done /\ finance.report.done)
    => /\ finance.index.paid = finance.report.paid
       /\ finance.index.profit = finance.report.profit

\* The items the script created under a stripped name.
Created(items, n) ==
    {i \in DOMAIN items : items[i].by = "script" /\ Strip(items[i].name) = n}

\* The step of an ensure call on items that hold the stripped name creates nothing
\* and returns the id of an item of that name; on items that do not, it appends one
\* item of the name and returns its id.
EnsureStep(before, after, name, id) ==
    IF \E i \in DOMAIN before : Strip(before[i].name) = Strip(name)
    THEN /\ after = before
         /\ \E i \in DOMAIN before :
               Strip(before[i].name) = Strip(name) /\ before[i].id = id
    ELSE /\ Len(after) = Len(before) + 1
         /\ SubSeq(after, 1, Len(before)) = before
         /\ after[Len(after)].name = name
         /\ after[Len(after)].id = id
         /\ \A i \in DOMAIN before : before[i].id # id

\* C30: ensure_list and ensure_label create nothing and return the id of an existing
\* item when one has the same stripped name, and create exactly one item otherwise;
\* however often they run, the board holds at most one list and at most one label of
\* each stripped name that they created.
C30_EnsureIdempotent ==
    /\ [](\A n \in {Strip(m) : m \in ItemNames} :
            /\ Cardinality(Created(boot.lists, n)) <= 1
            /\ Cardinality(Created(boot.labels, n)) <= 1)
    /\ [][/\ boot'.op = "ensure_list"
             => /\ EnsureStep(boot.lists, boot'.lists, boot'.name, boot'.id)
                /\ boot'.labels = boot.labels
          /\ boot'.op = "ensure_label"
             => /\ EnsureStep(boot.labels, boot'.labels, boot'.name, boot'.id)
                /\ boot'.lists = boot.lists]_vars

\* C30 witness: the script created the list " X", and its run with the name "X"
\* returned the id of that list and created nothing, while the board also holds a list
\* of the same name that a user added afterwards.
C30_Witness ==
    /\ boot.op = "ensure_list"
    /\ boot.name = <<"X">>
    /\ boot.id = 1
    /\ Len(boot.lists) = 2
    /\ boot.lists[1] = [id |-> 1, name |-> <<" ", "X">>, color |-> "", by |-> "script"]
    /\ boot.lists[2].by = "user"
    /\ Strip(boot.lists[2].name) = <<"X">>

====
